---- MODULE Spec2Model ----
(***************************************************************************)
(* Model of the image optimizer: discovery of image files, the per-file    *)
(* transformer processImage (probe, resize through a temp file,            *)
(* recompression, conditional commit) and the orchestrator                 *)
(* findAndProcessImages, in its two versions: the glob-based, unbatched    *)
(* one (optimize-images.js) and the worklist-based, batched one.           *)
(***************************************************************************)
EXTENDS Integers, Sequences, FiniteSets, TLC

\* ------------------------------------------------------------------ bounds
MaxFiles == 2       \* image files present in the scanned directory
MaxSize == 2        \* largest byte size of a file content
MaxFaults == 1      \* transient failures of file operations in one run
MaxBulk == 12       \* files of the long lists, more than one batch
MaxElapsed == 2     \* largest reading of the clock, in milliseconds
ManyFiles == 2201   \* length of the longest list the progress lines are computed for
LargeSize == 20001  \* largest byte size the savings line is computed for

\* ------------------------------------------------------- program constants
MAX_WIDTH == 2500

IMAGE_EXTENSIONS == <<".jpg", ".jpeg", ".png", ".gif", ".webp", ".svg">>

batchSize == 10

\* ------------------------------------------------------------------- paths
\* A path is the sequence of the pieces of its name: <<stem, ext, ...>>.
Candidates ==
  << <<"a", ".jpg">>, <<"b", ".jpeg">>, <<"c", ".png">>, <<"d", ".gif">>,
     <<"e", ".webp">>, <<"f", ".svg">>, <<"g", ".JPG">> >>

Range(s) == {s[k] : k \in 1..Len(s)}

\* the names of a long list of files that are not recompressed
Names(n) == [k \in 1..n |-> <<ToString(k), ".webp">>]

Bulk == Names(MaxBulk)

ImagePaths == Range(Candidates) \cup Range(Bulk)

\* imagePath + '.temp'
TempOf(p) == p \o <<".temp">>

TempPaths == {TempOf(p) : p \in ImagePaths}

Paths == ImagePaths \cup TempPaths

\* the order in which a directory listing returns its entries
DirOrder ==
  Candidates \o Bulk \o [k \in 1..Len(Candidates) |-> TempOf(Candidates[k])]
    \o [k \in 1..Len(Bulk) |-> TempOf(Bulk[k])]

\* path.extname: the last piece of the name when it starts a suffix
extname(p) == IF Len(p) >= 2 THEN p[Len(p)] ELSE ""

\* String.prototype.toLowerCase on the extensions that occur
toLowerCase(e) == IF e = ".JPG" THEN ".jpg" ELSE e

\* ----------------------------------------------------------- file contents
\* kind: "img" a decodable image, "corrupt" undecodable bytes, "partial" the
\* result of an interrupted write, "junk" a file that is not an image,
\* "none" no file.  gen counts the recompressions the bytes went through.
NoFile == [kind |-> "none", w |-> 0, sz |-> 0, gen |-> 0]

Img(w, sz, gen) == [kind |-> "img", w |-> w, sz |-> sz, gen |-> gen]

Corrupt == [kind |-> "corrupt", w |-> 0, sz |-> 0, gen |-> 0]

Junk == [kind |-> "junk", w |-> 0, sz |-> 1, gen |-> 0]

Partial(sz) == [kind |-> "partial", w |-> 0, sz |-> sz, gen |-> 0]

Widths == {MAX_WIDTH, MAX_WIDTH + 1}

InitialImages == {Img(w, sz, 0) : w \in Widths, sz \in 1..MaxSize} \cup {Corrupt}

Min(a, b) == IF a < b THEN a ELSE b

\* ------------------------------------------------------------------- state
VARIABLES
  variant,        \* "glob" (optimize-images.js) or "iter" (batched version)
  rootState,      \* "ok", "unlistable" or "missing": the working directory
  fs,             \* the files: path -> content
  pre,            \* the files when the current run started
  second,         \* TRUE in the second run of the program on the same tree
  pc,             \* position of the program
  imageFiles,     \* findAndProcessImages: the discovered paths
  i,              \* offset of the current batch in imageFiles
  batch,          \* the paths being looped over
  j,              \* position in batch
  completed,      \* findAndProcessImages: completed
  percent,        \* percentComplete of the last progress line, -1 before it
  eta,            \* the estimate computed with the last progress line
  imagePath,      \* processImage: its argument
  extension,      \* processImage: extension
  width,          \* processImage: metadata.width
  originalSize,   \* processImage: originalSize
  optimizedBuffer,\* processImage: optimizedBuffer
  memo,           \* results the compressors returned: <<path, input, output>>
  errors,         \* paths of the "Error processing" lines, in order
  calls,          \* paths processImage was called with, in order
  out,            \* per path: what happened to it in the current run
  out1,           \* per path: what happened to it in the first run
  discFailed,     \* discovery failed in the current run
  faults,         \* transient failures injected in the current run
  exitCode,       \* -1 while running, else the exit status of the process
  tree,           \* the directory tree walked: a set of directory entries
  noList,         \* the directories of the tree that cannot be listed
  queue,          \* getAllFilesIterative: queue
  files,          \* the paths the discovery has collected
  listed          \* the directories dequeued, in order, with the outcome

vars == <<variant, rootState, fs, pre, second, pc, imageFiles, i, batch, j,
          completed, imagePath, extension, width, originalSize,
          optimizedBuffer, memo, errors, calls, out, out1, discFailed,
          faults, exitCode, percent, eta, tree, noList, queue, files,
          listed>>

orchVars == <<imageFiles, i, batch, j, completed>>

walkVars == <<tree, noList, queue, files, listed>>

envVars == <<variant, rootState, pre, second, out1, discFailed, exitCode,
             percent, eta, walkVars>>

localVars == <<extension, width, originalSize, optimizedBuffer>>

\* what happened to one path in a run
NoOutcome ==
  [returned |-> FALSE, failedAt |-> "none", tempWritten |-> FALSE,
   resized |-> FALSE, compressed |-> "none", committed |-> FALSE,
   saved |-> -1]

\* no estimate was computed
NoEta == [elapsed |-> -1, ms |-> -1]

\* no tree is walked
NoWalk ==
  /\ tree = {}
  /\ noList = {}
  /\ queue = <<>>
  /\ files = <<>>
  /\ listed = <<>>

\* ------------------------------------------------------------------- Init
\* the directories scanned: up to MaxFiles image files that follow one
\* another in the listing
FileSets ==
  UNION {{{Candidates[k] : k \in a..b} :
            b \in {c \in 0..Len(Candidates) : c - MaxFiles < a}} :
         a \in 1..Len(Candidates)}

\* the path a temp path was derived from
BaseOf(t) == SubSeq(t, 1, Len(t) - 1)

Init ==
  /\ variant \in {"glob", "iter"}
  /\ rootState \in {"ok", "unlistable", "missing"}
  /\ \E S \in FileSets :
       \E T \in SUBSET S :
         \E c \in [S -> InitialImages] :
           /\ rootState = "missing" => S = {}
           /\ rootState = "unlistable" => (T = {} /\ Cardinality(S) <= 1)
           /\ \A p, q \in T : p = q
           /\ fs = [p \in Paths |->
                      IF p \in S THEN c[p]
                      ELSE IF p \in TempPaths /\ BaseOf(p) \in T THEN Junk
                      ELSE NoFile]
  /\ pre = fs
  /\ second = FALSE
  /\ pc = "start"
  /\ imageFiles = <<>>
  /\ i = 0
  /\ batch = <<>>
  /\ j = 1
  /\ completed = 0
  /\ imagePath = <<>>
  /\ extension = ""
  /\ width = 0
  /\ originalSize = 0
  /\ optimizedBuffer = NoFile
  /\ memo = {}
  /\ errors = <<>>
  /\ calls = <<>>
  /\ out = [p \in ImagePaths |-> NoOutcome]
  /\ out1 = [p \in ImagePaths |-> NoOutcome]
  /\ discFailed = FALSE
  /\ faults = 0
  /\ exitCode = -1
  /\ percent = -1
  /\ eta = NoEta
  /\ NoWalk

\* -------------------------------------------------------------- discovery
Exists(f, p) == f[p].kind # "none"

\* fs.readdirSync(dir, { withFileTypes: true }): every entry is a regular file
readdirSync(f) == SelectSeq(DirOrder, LAMBDA p : Exists(f, p))

\* the worklist traversal; a directory that cannot be read is logged and
\* skipped, the root included
getAllFilesIterative(f, listable) ==
  IF ~listable THEN <<>>
  ELSE SelectSeq(readdirSync(f),
         LAMBDA p : toLowerCase(extname(p)) \in Range(IMAGE_EXTENSIONS))

\* glob(`**/*${ext}`, { nocase: true })
globPromise(f, ext) ==
  SelectSeq(readdirSync(f), LAMBDA p : toLowerCase(extname(p)) = ext)

RECURSIVE globAll(_, _)
\* the loop over imagePatterns, from pattern k on
globAll(f, k) ==
  IF k > Len(IMAGE_EXTENSIONS) THEN <<>>
  ELSE globPromise(f, IMAGE_EXTENSIONS[k]) \o globAll(f, k + 1)

\* findAndProcessImages of the batched version, up to the batch loop
DiscoverIter ==
  /\ pc = "start"
  /\ variant = "iter"
  /\ IF rootState = "missing"
     THEN \* process.cwd() throws, the outer catch exits with 1
          /\ pc' = "exited"
          /\ exitCode' = 1
          /\ discFailed' = TRUE
          /\ UNCHANGED <<imageFiles, i>>
     ELSE /\ imageFiles' = getAllFilesIterative(fs, rootState = "ok")
          /\ discFailed' = (rootState # "ok")
          /\ i' = 0
          /\ pc' = "batch"
          /\ UNCHANGED exitCode
  /\ UNCHANGED <<variant, rootState, fs, pre, second, batch, j, completed,
                 imagePath, localVars, memo, errors, calls, out, out1>>
  /\ UNCHANGED <<faults, percent, eta, walkVars>>

\* findAndProcessImages of optimize-images.js, up to the loop
DiscoverGlob ==
  /\ pc = "start"
  /\ variant = "glob"
  /\ \E rejects \in BOOLEAN :
       /\ rejects => rootState # "ok"
       /\ IF rejects
          THEN \* caught by the catch of findAndProcessImages, which returns
               /\ pc' = "exited"
               /\ exitCode' = 0
               /\ discFailed' = TRUE
               /\ UNCHANGED <<imageFiles, batch, j>>
          ELSE /\ imageFiles' = IF rootState = "ok" THEN globAll(fs, 1) ELSE <<>>
               /\ discFailed' = (rootState # "ok")
               /\ batch' = imageFiles'
               /\ j' = 1
               /\ pc' = "item"
               /\ UNCHANGED exitCode
  /\ UNCHANGED <<variant, rootState, fs, pre, second, i, completed,
                 imagePath, localVars, memo, errors, calls, out, out1>>
  /\ UNCHANGED <<faults, percent, eta, walkVars>>

\* ----------------------------------------------------------- orchestrator
\* variant of the head of the batch loop whose slice is one path short
BatchStartShort ==
  /\ pc = "batch"
  /\ IF i < Len(imageFiles)
     THEN /\ batch' = SubSeq(imageFiles, i + 1,
                             Min(i + batchSize - 1, Len(imageFiles)))
          /\ j' = 1
          /\ pc' = "item"
     ELSE /\ pc' = "finish"
          /\ UNCHANGED <<batch, j>>
  /\ UNCHANGED <<imageFiles, i, completed, imagePath, localVars, fs, memo,
                 errors, calls, out, envVars>>
  /\ UNCHANGED faults

\* head of the batch loop: for (let i = 0; i < imageFiles.length; i += 10)
BatchStart ==
  /\ pc = "batch"
  /\ IF i < Len(imageFiles)
     THEN /\ batch' = SubSeq(imageFiles, i + 1, Min(i + batchSize, Len(imageFiles)))
          /\ j' = 1
          /\ pc' = "item"
     ELSE /\ pc' = "finish"
          /\ UNCHANGED <<batch, j>>
  /\ UNCHANGED <<imageFiles, i, completed, imagePath, localVars, fs, memo,
                 errors, calls, out, envVars>>
  /\ UNCHANGED faults

\* the for-of loop has run out of paths
LoopEnd ==
  /\ pc = "item"
  /\ j > Len(batch)
  /\ IF variant = "iter"
     THEN i' = i + batchSize /\ pc' = "batch"
     ELSE i' = i /\ pc' = "finish"
  /\ UNCHANGED <<imageFiles, batch, j, completed, imagePath, localVars, fs,
                 memo, errors, calls, out, envVars>>
  /\ UNCHANGED faults

\* variant of the percentage that rounds down
percentFloor(c, t) == (c * 100) \div t

\* Math.round(completed / imageFiles.length * 100): the exact quotient to
\* the nearest integer, a half upwards
percentComplete(c, t) == (200 * c + t) \div (2 * t)

\* variant of the estimate test that starts with the tenth file
etaDueFrom10(c, pct) == c >= 10 /\ pct > 0

\* the estimate test: if (completed > 10 && percentComplete > 0)
etaDue(c, pct) == c > 10 /\ pct > 0

\* msPerImage * remainingImages, in whole milliseconds
msRemaining(elapsed, c, t) == (elapsed * (t - c)) \div c

\* processImage has returned: completed++, the progress line and, in the
\* batched version, the estimate from the clock reading
Progress ==
  /\ pc = "pi_return"
  /\ completed' = completed + 1
  /\ percent' = percentComplete(completed + 1, Len(imageFiles))
  /\ IF variant = "iter" /\ etaDue(completed + 1, percent')
     THEN \E elapsed \in 0..MaxElapsed :
            eta' = [elapsed |-> elapsed,
                    ms |-> msRemaining(elapsed, completed + 1, Len(imageFiles))]
     ELSE eta' = NoEta
  /\ j' = j + 1
  /\ pc' = "item"
  /\ UNCHANGED <<imageFiles, i, batch, imagePath, localVars, fs, memo,
                 errors, calls, out>>
  /\ UNCHANGED <<variant, rootState, pre, second, out1, discFailed, exitCode,
                 walkVars>>
  /\ UNCHANGED faults

\* variant of the end of the run whose status reports the failed files
FinishFailing ==
  /\ pc = "finish"
  /\ pc' = "exited"
  /\ exitCode' = IF Len(errors) > 0 THEN 1 ELSE 0
  /\ UNCHANGED <<variant, rootState, pre, second, out1, discFailed, orchVars,
                 imagePath, localVars, fs, memo, errors, calls, out, faults>>
  /\ UNCHANGED <<percent, eta, walkVars>>

\* "All images have been processed!"; the process ends with status 0
Finish ==
  /\ pc = "finish"
  /\ pc' = "exited"
  /\ exitCode' = 0
  /\ UNCHANGED <<variant, rootState, pre, second, out1, discFailed, orchVars,
                 imagePath, localVars, fs, memo, errors, calls, out>>
  /\ UNCHANGED <<faults, percent, eta, walkVars>>

\* the program is started again on the tree the first run left
RunAgain ==
  /\ pc = "exited"
  /\ ~second
  /\ second' = TRUE
  /\ pre' = fs
  /\ out1' = out
  /\ out' = [p \in ImagePaths |-> NoOutcome]
  /\ pc' = "start"
  /\ exitCode' = -1
  /\ discFailed' = FALSE
  /\ faults' = 0
  /\ imageFiles' = <<>>
  /\ i' = 0
  /\ batch' = <<>>
  /\ j' = 1
  /\ completed' = 0
  /\ imagePath' = <<>>
  /\ extension' = ""
  /\ width' = 0
  /\ originalSize' = 0
  /\ optimizedBuffer' = NoFile
  /\ errors' = <<>>
  /\ calls' = <<>>
  /\ percent' = -1
  /\ eta' = NoEta
  /\ UNCHANGED <<variant, rootState, fs, memo, walkVars>>

\* ------------------------------------------------------------ processImage
\* variant of the resize decision that also resizes at the threshold
NeedsResizeGe(w) == w >= MAX_WIDTH

\* the resize decision: if (metadata.width > MAX_WIDTH)
NeedsResize(w) == w > MAX_WIDTH

\* variant of the resize whose cap is one pixel wider
ResizedWidthWider(w) == Min(w, MAX_WIDTH + 1)

\* sharp(...).resize({ width: MAX_WIDTH, withoutEnlargement: true })
ResizedWidth(w) == Min(w, MAX_WIDTH)

\* the extensions the optimization block is entered for
Optimizable(ext) == ext \in {".jpg", ".jpeg", ".png", ".gif", ".svg"}

\* the if / else-if chain that fills plugins
Plugins(ext) ==
  IF ext \in {".jpg", ".jpeg"} THEN <<"mozjpeg-q80">>
  ELSE IF ext = ".png" THEN <<"pngquant-q65-80">>
  ELSE IF ext = ".gif" THEN <<"gifsicle">>
  ELSE IF ext = ".svg" THEN <<"svgo">>
  ELSE IF ext = ".webp" THEN <<"webp-q80">>
  ELSE <<>>

\* variant of the commit decision that also commits an equal length
ShouldCommitLe(len, orig) == len <= orig

\* the commit decision: if (optimizedBuffer.length < originalSize)
ShouldCommit(len, orig) == len < orig

\* the results already returned by the compressor for these bytes of path p
Known(p, c) == {m \in memo : m[1] = p /\ m[2] = c}

Mark(field, v) == out' = [out EXCEPT ![imagePath][field] = v]

\* a file operation fails although its arguments are fine
Fault == faults < MaxFaults /\ faults' = faults + 1

\* processImage returns: its locals are gone
Return ==
  /\ pc' = "pi_return"
  /\ extension' = ""
  /\ width' = 0
  /\ originalSize' = 0
  /\ optimizedBuffer' = NoFile

\* the call: `for (const imagePath of ...) await processImage(imagePath)`,
\* the extension test and "Processing:"
Call ==
  /\ pc = "item"
  /\ j <= Len(batch)
  /\ imagePath' = batch[j]
  /\ calls' = Append(calls, batch[j])
  /\ IF toLowerCase(extname(batch[j])) \in Range(IMAGE_EXTENSIONS)
     THEN /\ extension' = toLowerCase(extname(batch[j]))
          /\ pc' = "pi_probe"
          /\ UNCHANGED <<width, originalSize, optimizedBuffer>>
     ELSE Return
  /\ UNCHANGED <<orchVars, fs, memo, errors, out, envVars>>
  /\ UNCHANGED faults

\* sharp(imagePath).metadata(): throws on what is not a decodable image
Probe ==
  /\ pc = "pi_probe"
  /\ \/ /\ fs[imagePath].kind = "img"
        /\ width' = fs[imagePath].w
        /\ pc' = IF NeedsResize(fs[imagePath].w) THEN "pi_resize" ELSE "pi_opt"
        /\ UNCHANGED <<out, faults>>
     \/ /\ IF fs[imagePath].kind = "img" THEN Fault ELSE UNCHANGED faults
        /\ pc' = "pi_catch"
        /\ Mark("failedAt", "probe")
        /\ UNCHANGED width
  /\ UNCHANGED <<orchVars, imagePath, extension, originalSize,
                 optimizedBuffer, fs, memo, errors, calls, envVars>>

\* variant of the resize write that writes over the image itself
ResizeInPlace ==
  /\ pc = "pi_resize"
  /\ \/ \E sz \in 1..MaxSize :
          /\ fs' = [fs EXCEPT ![imagePath] = Img(ResizedWidth(fs[imagePath].w), sz, 0)]
          /\ pc' = "pi_opt"
          /\ Mark("resized", TRUE)
          /\ UNCHANGED faults
     \/ \E wrote \in BOOLEAN :
          /\ Fault
          /\ fs' = IF wrote THEN [fs EXCEPT ![imagePath] = Partial(0)] ELSE fs
          /\ Mark("failedAt", "resize")
          /\ pc' = "pi_catch"
  /\ UNCHANGED <<orchVars, imagePath, localVars, memo, errors, calls, envVars>>

\* sharp(imagePath).resize(...).toFile(tempPath): a failed write leaves the
\* temp path as it was or with part of the output
ResizeToFile ==
  /\ pc = "pi_resize"
  /\ \/ \E sz \in 1..MaxSize :
          /\ fs' = [fs EXCEPT ![TempOf(imagePath)] =
                      Img(ResizedWidth(fs[imagePath].w), sz, 0)]
          /\ Mark("tempWritten", TRUE)
          /\ pc' = "pi_unlink"
          /\ UNCHANGED faults
     \/ \E wrote \in BOOLEAN :
          /\ Fault
          /\ fs' = IF wrote
                   THEN [fs EXCEPT ![TempOf(imagePath)] = Partial(0)]
                   ELSE fs
          /\ out' = [out EXCEPT ![imagePath].failedAt = "resize",
                                ![imagePath].tempWritten = wrote]
          /\ pc' = "pi_catch"
  /\ UNCHANGED <<orchVars, imagePath, localVars, memo, errors, calls, envVars>>

\* fs.unlinkSync(imagePath)
Unlink ==
  /\ pc = "pi_unlink"
  /\ \/ /\ fs' = [fs EXCEPT ![imagePath] = NoFile]
        /\ pc' = "pi_rename"
        /\ UNCHANGED <<out, faults>>
     \/ /\ Fault
        /\ pc' = "pi_catch"
        /\ Mark("failedAt", "unlink")
        /\ UNCHANGED fs
  /\ UNCHANGED <<orchVars, imagePath, localVars, memo, errors, calls, envVars>>

\* variant of the rename that copies and leaves the temp file
RenameCopy ==
  /\ pc = "pi_rename"
  /\ \/ /\ fs' = [fs EXCEPT ![imagePath] = fs[TempOf(imagePath)]]
        /\ Mark("resized", TRUE)
        /\ pc' = "pi_opt"
        /\ UNCHANGED faults
     \/ /\ Fault
        /\ pc' = "pi_catch"
        /\ Mark("failedAt", "rename")
        /\ UNCHANGED fs
  /\ UNCHANGED <<orchVars, imagePath, localVars, memo, errors, calls, envVars>>

\* fs.renameSync(tempPath, imagePath)
Rename ==
  /\ pc = "pi_rename"
  /\ \/ /\ fs' = [fs EXCEPT ![imagePath] = fs[TempOf(imagePath)],
                            ![TempOf(imagePath)] = NoFile]
        /\ out' = [out EXCEPT ![imagePath].resized = TRUE,
                              ![imagePath].tempWritten = FALSE]
        /\ pc' = "pi_opt"
        /\ UNCHANGED faults
     \/ /\ Fault
        /\ pc' = "pi_catch"
        /\ Mark("failedAt", "rename")
        /\ UNCHANGED fs
  /\ UNCHANGED <<orchVars, imagePath, localVars, memo, errors, calls, envVars>>

\* the test that guards the optimization block, fs.statSync(imagePath).size
\* and the choice of the plugin; "Completed processing" when there is
\* nothing to optimize
OptimizeStart ==
  /\ pc = "pi_opt"
  /\ IF Optimizable(extension)
     THEN \/ /\ IF Len(Plugins(extension)) > 0
                THEN /\ originalSize' = fs[imagePath].sz
                     /\ pc' = "pi_compress"
                     /\ UNCHANGED <<out, extension, width, optimizedBuffer>>
                ELSE /\ Return
                     /\ Mark("returned", TRUE)
             /\ UNCHANGED faults
          \/ /\ Fault
             /\ pc' = "pi_catch"
             /\ Mark("failedAt", "stat")
             /\ UNCHANGED localVars
     ELSE /\ Return
          /\ Mark("returned", TRUE)
          /\ UNCHANGED faults
  /\ UNCHANGED <<orchVars, imagePath, fs, memo, errors, calls, envVars>>

\* imagemin.buffer(fs.readFileSync(imagePath), { plugins }): the same bytes
\* always give the same result
Compress ==
  /\ pc = "pi_compress"
  /\ \/ \E o \in 0..MaxSize :
          /\ \A m \in Known(imagePath, fs[imagePath]) : m[3] = o
          /\ memo' = memo \cup {<<imagePath, fs[imagePath], o>>}
          /\ optimizedBuffer' = Img(fs[imagePath].w, o, fs[imagePath].gen + 1)
          /\ Mark("compressed", Plugins(extension)[1])
          /\ pc' = "pi_commit"
          /\ UNCHANGED faults
     \/ /\ Fault
        /\ pc' = "pi_catch"
        /\ Mark("failedAt", "compress")
        /\ UNCHANGED <<memo, optimizedBuffer>>
  /\ UNCHANGED <<orchVars, imagePath, extension, width, originalSize, fs,
                 errors, calls, envVars>>

\* ((originalSize - newSize) / originalSize * 100).toFixed(2), in
\* hundredths of a percent rounded to the nearest; -2 stands for the "NaN"
\* and "-Infinity" a division by zero gives
savedPercentage(orig, new) ==
  IF orig = 0 THEN -2
  ELSE (2 * (orig - new) * 10000 + orig) \div (2 * orig)

\* the conditional commit: fs.writeFileSync(imagePath, optimizedBuffer), the
\* second statSync and the log lines, or "did not reduce size"
Commit ==
  /\ pc = "pi_commit"
  /\ IF ShouldCommit(optimizedBuffer.sz, originalSize)
     THEN \/ /\ fs' = [fs EXCEPT ![imagePath] = optimizedBuffer]
             /\ out' = [out EXCEPT ![imagePath].committed = TRUE,
                                   ![imagePath].returned = TRUE,
                                   ![imagePath].saved =
                                     savedPercentage(originalSize,
                                                     optimizedBuffer.sz)]
             /\ Return
             /\ UNCHANGED faults
          \/ \* writeFileSync fails: nothing, or part of the buffer, is written
             \E k \in -1..optimizedBuffer.sz :
               /\ Fault
               /\ fs' = IF k < 0 THEN fs
                        ELSE [fs EXCEPT ![imagePath] = Partial(k)]
               /\ Mark("failedAt", "commit")
               /\ pc' = "pi_catch"
               /\ UNCHANGED localVars
          \/ \* the statSync after the write fails
             /\ Fault
             /\ fs' = [fs EXCEPT ![imagePath] = optimizedBuffer]
             /\ out' = [out EXCEPT ![imagePath].committed = TRUE,
                                   ![imagePath].failedAt = "commit"]
             /\ pc' = "pi_catch"
             /\ UNCHANGED localVars
     ELSE /\ Return
          /\ Mark("returned", TRUE)
          /\ UNCHANGED <<fs, faults>>
  /\ UNCHANGED <<orchVars, imagePath, memo, errors, calls, envVars>>

\* variant of the catch that lets the error out of processImage: the loop of
\* optimize-images.js is left for the catch of findAndProcessImages, the
\* batched loop skips its progress step
Rethrow ==
  /\ pc = "pi_catch"
  /\ Mark("returned", TRUE)
  /\ extension' = ""
  /\ width' = 0
  /\ originalSize' = 0
  /\ optimizedBuffer' = NoFile
  /\ IF variant = "glob"
     THEN pc' = "exited" /\ exitCode' = 0 /\ j' = j
     ELSE pc' = "item" /\ exitCode' = exitCode /\ j' = j + 1
  /\ UNCHANGED <<variant, rootState, pre, second, out1, discFailed, faults,
                 imageFiles, i, batch, completed, imagePath, fs, memo,
                 errors, calls, percent, eta, walkVars>>

\* variant of the catch that puts back the content the file had when the
\* run started
CatchRollback ==
  /\ pc = "pi_catch"
  /\ errors' = Append(errors, imagePath)
  /\ fs' = [fs EXCEPT ![imagePath] = pre[imagePath]]
  /\ Mark("returned", TRUE)
  /\ Return
  /\ UNCHANGED <<orchVars, imagePath, memo, calls, envVars>>
  /\ UNCHANGED faults

\* catch (error): "Error processing <path>", then processImage returns
Catch ==
  /\ pc = "pi_catch"
  /\ errors' = Append(errors, imagePath)
  /\ Mark("returned", TRUE)
  /\ Return
  /\ UNCHANGED <<orchVars, imagePath, fs, memo, calls, envVars>>
  /\ UNCHANGED faults

\* ------------------------------------------------------- the specification
Next ==
  \/ DiscoverIter
  \/ DiscoverGlob
  \/ BatchStart
  \/ LoopEnd
  \/ Call
  \/ Probe
  \/ ResizeToFile
  \/ Unlink
  \/ Rename
  \/ OptimizeStart
  \/ Compress
  \/ Commit
  \/ Catch
  \/ Progress
  \/ Finish

Spec == Init /\ [][Next]_vars

\* a directory that holds at most one image file
InitOne == Init /\ \A p, q \in ImagePaths : (Exists(fs, p) /\ Exists(fs, q)) => p = q

SpecOne == InitOne /\ [][Next]_vars

\* the program run twice on the same tree
NextTwice == Next \/ RunAgain

SpecTwice == InitOne /\ [][NextTwice]_vars

TypeOK ==
  /\ pc \in {"start", "batch", "item", "pi_probe", "pi_resize", "pi_unlink",
             "pi_rename", "pi_opt", "pi_compress", "pi_commit", "pi_catch",
             "pi_return", "finish", "exited", "walk_start", "walk", "walked"}
  /\ exitCode \in {-1, 0, 1}

\* a scheduler that always runs the next step of the single thread
FairSpec == Spec /\ WF_vars(Next)

\* ---------------------------------------------------- discovery on a tree
\* the directory the walk starts from: getAllFilesIterative('.')
Root == <<".">>

\* path.join(currentDir, entry.name)
join(dir, name) == IF dir = Root THEN name ELSE dir \o <<"/">> \o name

\* a directory entry (fs.Dirent): type "dir" answers isDirectory(), "file"
\* answers isFile(), "other" (symbolic link, socket, FIFO) answers neither
Entry(dir, name, type) == [dir |-> dir, name |-> name, type |-> type]

\* the entries a tree is made of, in the order listings return them
Universe ==
  << Entry(Root, <<"a", ".jpg">>, "file"),
     Entry(Root, <<"g", ".JPG">>, "file"),
     Entry(Root, <<"n", ".txt">>, "file"),
     Entry(Root, <<"l", ".gif">>, "other"),
     Entry(Root, <<"sub">>, "dir"),
     Entry(Root, <<"pics", ".jpg">>, "dir"),
     Entry(<<"sub">>, <<"c", ".png">>, "file"),
     Entry(<<"sub">>, <<"deep">>, "dir"),
     Entry(<<"sub", "/", "deep">>, <<"d", ".svg">>, "file"),
     Entry(<<"pics", ".jpg">>, <<"e", ".webp">>, "file") >>

fullPath(e) == join(e.dir, e.name)

PathsOf(entries) == [k \in 1..Len(entries) |-> fullPath(entries[k])]

\* the directories of a tree
Dirs(t) == {Root} \cup {fullPath(e) : e \in {x \in t : x.type = "dir"}}

\* the trees: every entry lies in a directory of the tree
Trees == {t \in SUBSET Range(Universe) : \A e \in t : e.dir \in Dirs(t)}

\* the state in which no file is processed
AtRest ==
  /\ second = FALSE
  /\ imageFiles = <<>>
  /\ i = 0
  /\ batch = <<>>
  /\ j = 1
  /\ completed = 0
  /\ imagePath = <<>>
  /\ extension = ""
  /\ width = 0
  /\ originalSize = 0
  /\ optimizedBuffer = NoFile
  /\ memo = {}
  /\ errors = <<>>
  /\ calls = <<>>
  /\ out = [p \in ImagePaths |-> NoOutcome]
  /\ out1 = [p \in ImagePaths |-> NoOutcome]
  /\ discFailed = FALSE
  /\ faults = 0
  /\ exitCode = -1
  /\ percent = -1
  /\ eta = NoEta

\* the discovery is about to run on a tree some of whose subdirectories
\* cannot be listed
InitWalk ==
  /\ variant \in {"glob", "iter"}
  /\ rootState = "ok"
  /\ fs = [p \in Paths |-> NoFile]
  /\ pre = fs
  /\ pc = "walk_start"
  /\ AtRest
  /\ tree \in Trees
  /\ noList \in SUBSET (Dirs(tree) \ {Root})
  /\ queue = <<>>
  /\ files = <<>>
  /\ listed = <<>>

\* fs.readdirSync(currentDir, { withFileTypes: true })
entries(t, currentDir) == SelectSeq(Universe, LAMBDA e : e \in t /\ e.dir = currentDir)

\* IMAGE_EXTENSIONS.includes(path.extname(entry.name).toLowerCase())
isImageName(name) == toLowerCase(extname(name)) \in Range(IMAGE_EXTENSIONS)

\* const files = []; const queue = [dir];
WalkStart ==
  /\ pc = "walk_start"
  /\ variant = "iter"
  /\ queue' = <<Root>>
  /\ files' = <<>>
  /\ pc' = "walk"
  /\ UNCHANGED <<tree, noList, listed, variant, rootState, fs, pre, second,
                 orchVars, imagePath, localVars, memo, errors, calls, out,
                 out1, discFailed, faults, exitCode, percent, eta>>

\* variant of the loop body that gives up the walk on a listing error
WalkDirAbort ==
  /\ pc = "walk"
  /\ queue # <<>>
  /\ LET currentDir == Head(queue)
         found == entries(tree, currentDir)
     IN IF currentDir \notin noList
        THEN /\ queue' = Tail(queue) \o
                   PathsOf(SelectSeq(found, LAMBDA e : e.type = "dir"))
             /\ files' = files \o
                   PathsOf(SelectSeq(found,
                     LAMBDA e : e.type = "file" /\ isImageName(e.name)))
             /\ listed' = Append(listed, <<currentDir, "ok">>)
        ELSE /\ queue' = <<>>
             /\ files' = files
             /\ listed' = Append(listed, <<currentDir, "error">>)
  /\ UNCHANGED <<tree, noList, pc, variant, rootState, fs, pre, second,
                 orchVars, imagePath, localVars, memo, errors, calls, out,
                 out1, discFailed, faults, exitCode, percent, eta>>

\* variant of the loop body that puts a directory it could not list back
\* on the queue, once
WalkDirRetry ==
  /\ pc = "walk"
  /\ queue # <<>>
  /\ LET currentDir == Head(queue)
         found == entries(tree, currentDir)
     IN IF currentDir \notin noList
        THEN /\ queue' = Tail(queue) \o
                   PathsOf(SelectSeq(found, LAMBDA e : e.type = "dir"))
             /\ files' = files \o
                   PathsOf(SelectSeq(found,
                     LAMBDA e : e.type = "file" /\ isImageName(e.name)))
             /\ listed' = Append(listed, <<currentDir, "ok">>)
        ELSE /\ queue' = IF <<currentDir, "error">> \in Range(listed)
                         THEN Tail(queue)
                         ELSE Append(Tail(queue), currentDir)
             /\ files' = files
             /\ listed' = Append(listed, <<currentDir, "error">>)
  /\ UNCHANGED <<tree, noList, pc, variant, rootState, fs, pre, second,
                 orchVars, imagePath, localVars, memo, errors, calls, out,
                 out1, discFailed, faults, exitCode, percent, eta>>

\* one turn of `while (queue.length > 0)`: the directory at the head of the
\* queue is listed, its subdirectories are queued and its image files
\* collected; a listing error is logged and the loop goes on
WalkDir ==
  /\ pc = "walk"
  /\ queue # <<>>
  /\ LET currentDir == Head(queue)
         found == entries(tree, currentDir)
     IN IF currentDir \notin noList
        THEN /\ queue' = Tail(queue) \o
                   PathsOf(SelectSeq(found, LAMBDA e : e.type = "dir"))
             /\ files' = files \o
                   PathsOf(SelectSeq(found,
                     LAMBDA e : e.type = "file" /\ isImageName(e.name)))
             /\ listed' = Append(listed, <<currentDir, "ok">>)
        ELSE /\ queue' = Tail(queue)
             /\ files' = files
             /\ listed' = Append(listed, <<currentDir, "error">>)
  /\ UNCHANGED <<tree, noList, pc, variant, rootState, fs, pre, second,
                 orchVars, imagePath, localVars, memo, errors, calls, out,
                 out1, discFailed, faults, exitCode, percent, eta>>

\* the queue is empty: return files
WalkEnd ==
  /\ pc = "walk"
  /\ queue = <<>>
  /\ pc' = "walked"
  /\ UNCHANGED <<walkVars, variant, rootState, fs, pre, second,
                 orchVars, imagePath, localVars, memo, errors, calls, out,
                 out1, discFailed, faults, exitCode, percent, eta>>

RECURSIVE Reached(_, _, _)
\* directory d is come to: every directory above it could be listed
Reached(t, nl, d) ==
  \/ d = Root
  \/ \E x \in t :
       /\ x.type = "dir"
       /\ fullPath(x) = d
       /\ x.dir \notin nl
       /\ Reached(t, nl, x.dir)

\* glob(`**/*${ext}`, { nocase: true, absolute: true }) on a tree: every
\* entry whose name ends in ext, whatever its type (nodir is not set), in
\* the directories that can be come to and listed
globTree(t, nl, ext) ==
  PathsOf(SelectSeq(Universe,
    LAMBDA e : /\ e \in t
               /\ Reached(t, nl, e.dir)
               /\ e.dir \notin nl
               /\ toLowerCase(extname(e.name)) = ext))

RECURSIVE globTreeAll(_, _, _)
\* the loop over imagePatterns on a tree, from pattern k on
globTreeAll(t, nl, k) ==
  IF k > Len(IMAGE_EXTENSIONS) THEN <<>>
  ELSE globTree(t, nl, IMAGE_EXTENSIONS[k]) \o globTreeAll(t, nl, k + 1)

\* the discovery of optimize-images.js on a tree
GlobTree ==
  /\ pc = "walk_start"
  /\ variant = "glob"
  /\ files' = globTreeAll(tree, noList, 1)
  /\ pc' = "walked"
  /\ UNCHANGED <<tree, noList, queue, listed, variant, rootState, fs, pre,
                 second, orchVars, imagePath, localVars, memo, errors, calls,
                 out, out1, discFailed, faults, exitCode, percent, eta>>

NextWalk ==
  \/ WalkStart
  \/ WalkDir
  \/ WalkEnd
  \/ GlobTree

SpecWalk == InitWalk /\ [][NextWalk]_vars

\* the single thread always takes its next step
FairWalk == SpecWalk /\ WF_vars(NextWalk)

\* ------------------------------------------------------------- long lists
\* a directory with more files than one batch: possibly a wide image that is
\* resized and recompressed, and files that are not recompressed, all
\* decodable or all corrupt
InitBatch ==
  /\ variant \in {"glob", "iter"}
  /\ rootState = "ok"
  /\ \E n \in 0..MaxBulk :
       \E first \in SUBSET {Candidates[1]} :
         \E c \in {Img(MAX_WIDTH, 1, 0), Corrupt} :
           fs = [p \in Paths |->
                   IF p \in first THEN Img(MAX_WIDTH + 1, MaxSize, 0)
                   ELSE IF \E k \in 1..n : p = Bulk[k] THEN c
                   ELSE NoFile]
  /\ pre = fs
  /\ pc = "start"
  /\ AtRest
  /\ NoWalk

SpecBatch == InitBatch /\ [][Next]_vars

\* ------------------------------------------- progress and savings figures
\* the list lengths and byte sizes the figures are computed for
Totals == (1..MaxBulk) \cup {ManyFiles - 1, ManyFiles}

Sizes == (0..MaxSize) \cup {LargeSize - 1, LargeSize}

\* what does not take part in the figures
Apart ==
  /\ rootState = "ok"
  /\ second = FALSE
  /\ errors = <<>>
  /\ out1 = [p \in ImagePaths |-> NoOutcome]
  /\ discFailed = FALSE
  /\ faults = 0
  /\ exitCode = -1
  /\ eta = NoEta
  /\ NoWalk

\* processImage has just returned for the file after the first c of a list
\* of N
InitProgress ==
  /\ variant \in {"glob", "iter"}
  /\ \E N \in Totals :
       \E c \in {k \in 0..(N - 1) : k < MaxBulk \/ k = N - 1} :
         /\ imageFiles = Names(N)
         /\ completed = c
         /\ i = IF variant = "iter" THEN (c \div batchSize) * batchSize ELSE 0
         /\ batch = IF variant = "iter"
                    THEN SubSeq(imageFiles, i + 1, Min(i + batchSize, N))
                    ELSE imageFiles
         /\ j = c - i + 1
         /\ imagePath = imageFiles[c + 1]
         /\ calls = SubSeq(imageFiles, 1, c + 1)
         /\ percent = IF c = 0 THEN -1 ELSE percentComplete(c, N)
  /\ pc = "pi_return"
  /\ fs = [p \in Paths |-> NoFile]
  /\ pre = fs
  /\ extension = ""
  /\ width = 0
  /\ originalSize = 0
  /\ optimizedBuffer = NoFile
  /\ memo = {}
  /\ out = [p \in ImagePaths |-> NoOutcome]
  /\ Apart

\* the only file of a directory has just been recompressed from o to n bytes
InitCommit ==
  /\ variant \in {"glob", "iter"}
  /\ \E o, n \in Sizes :
       /\ fs = [p \in Paths |->
                  IF p = Candidates[1] THEN Img(MAX_WIDTH, o, 0) ELSE NoFile]
       /\ originalSize = o
       /\ optimizedBuffer = Img(MAX_WIDTH, n, 1)
       /\ memo = {<<Candidates[1], Img(MAX_WIDTH, o, 0), n>>}
  /\ pre = fs
  /\ imageFiles = <<Candidates[1]>>
  /\ i = 0
  /\ batch = imageFiles
  /\ j = 1
  /\ completed = 0
  /\ percent = -1
  /\ imagePath = Candidates[1]
  /\ calls = <<Candidates[1]>>
  /\ extension = ".jpg"
  /\ width = MAX_WIDTH
  /\ out = [p \in ImagePaths |->
              IF p = Candidates[1]
              THEN [NoOutcome EXCEPT !.compressed = "mozjpeg-q80"]
              ELSE NoOutcome]
  /\ pc = "pi_commit"
  /\ Apart

\* the discovery has found no file
InitEmpty ==
  /\ variant \in {"glob", "iter"}
  /\ pc = IF variant = "iter" THEN "batch" ELSE "item"
  /\ fs = [p \in Paths |-> NoFile]
  /\ pre = fs
  /\ AtRest
  /\ rootState = "ok"
  /\ NoWalk

InitNum == InitProgress \/ InitCommit \/ InitEmpty

\* the steps that compute the figures, and the loop heads around them
NextNum ==
  \/ BatchStart
  \/ LoopEnd
  \/ Commit
  \/ Catch
  \/ Progress

SpecNum == InitNum /\ [][NextNum]_vars

\* ------------------------------------------------------------------ claims
\* a call of processImage is in progress
InCall ==
  pc \in {"pi_probe", "pi_resize", "pi_unlink", "pi_rename", "pi_opt",
          "pi_compress", "pi_commit", "pi_catch"}

Failed == {p \in ImagePaths : out[p].failedAt # "none"}

ResizeSteps == {"resize", "unlink", "rename"}

\* a returned call whose probe or resize write failed left the original
C1_State ==
  \A p \in ImagePaths :
    (out[p].returned /\ out[p].failedAt \in {"probe", "resize"}
       /\ pre[p].w > MAX_WIDTH)
      => fs[p] = pre[p]

\* a step empties an image path only while its temp path holds the whole
\* resized image, which the step leaves there
C1_Step ==
  \A p \in ImagePaths :
    (Exists(fs, p) /\ ~Exists(fs', p))
      => /\ out[p].tempWritten
         /\ fs[TempOf(p)] = Img(MAX_WIDTH, fs[TempOf(p)].sz, 0)
         /\ fs'[TempOf(p)] = fs[TempOf(p)]

\* C1: when the probe or the resize write of an image wider than 2500 fails,
\* the file at the original path is, once processImage has returned, the
\* content it had before the run; and the original path is emptied only
\* while its temp path holds the complete resized image.
C1_OriginalSurvivesFailedResize == [](C1_State) /\ [][C1_Step]_vars

C1_Witness ==
  \E p \in ImagePaths :
    /\ out[p].returned
    /\ out[p].failedAt = "resize"
    /\ pre[p].w > MAX_WIDTH
    /\ fs[TempOf(p)].kind = "partial"

\* C2: after processImage has returned from a failure at any step, the
\* image path holds a complete image (the original, the resized version or
\* a committed recompression of one of them).
C2_FailureLeavesGoodFile ==
  \A p \in ImagePaths :
    (out[p].returned /\ out[p].failedAt # "none" /\ pre[p].kind = "img")
      => fs[p].kind = "img"

\* what one step taken at the conditional commit does to the file
C3_Step ==
  pc = "pi_commit"
    => /\ originalSize = fs[imagePath].sz
       /\ fs'[imagePath].sz <= fs[imagePath].sz
       /\ (fs'[imagePath] # fs[imagePath]) => (optimizedBuffer.sz < originalSize)
       /\ (optimizedBuffer.sz >= originalSize) => (fs' = fs)

\* C3: the commit step writes the file only when the recompressed length is
\* strictly smaller than the size the file has just before, it leaves the
\* files untouched when the length is equal or larger, and it never makes
\* the file larger.
C3_NeverCommitLarger == [][C3_Step]_vars

C3_Witness ==
  \E p \in ImagePaths :
    /\ out[p].returned
    /\ out[p].committed
    /\ out[p].resized
    /\ fs[p].sz < MaxSize

\* C4: every file of a recognized extension that is processed without a
\* failure has been through the compressor of its format, .webp through
\* the quality-80 WebP compressor.
C4_EveryFormatRecompressed ==
  \A p \in ImagePaths :
    (out[p].returned /\ out[p].failedAt = "none")
      => out[p].compressed = Plugins(toLowerCase(extname(p)))[1]

\* C5: when exactly one of the discovered files fails, the run still calls
\* processImage on every file, the other files complete, exactly one error
\* is logged, for the failed file, and the loop is not aborted.
C5_Isolation ==
  (pc = "exited" /\ ~discFailed /\ Cardinality(Failed) = 1)
    => /\ calls = imageFiles
       /\ completed = Len(imageFiles)
       /\ \A p \in Range(imageFiles) : out[p].returned
       /\ \A p \in Range(imageFiles) \ Failed : fs[p].kind = "img"
       /\ Len(errors) = 1
       /\ errors[1] \in Failed

C5_Witness ==
  /\ pc = "exited"
  /\ Len(imageFiles) = 2
  /\ Failed = {imageFiles[1]}
  /\ out[imageFiles[2]].returned
  /\ out[imageFiles[2]].committed

\* C6: when discovery fails, the run ends with a non-zero exit status and
\* no file is processed.
C6_DiscoveryFailureAborts ==
  (pc = "exited" /\ discFailed) => (exitCode # 0 /\ calls = <<>>)

\* C7: a run whose discovery succeeds reaches its end and exits with
\* status 0, however many files failed.
C7_RunCompletes ==
  [](((pc \in {"batch", "item"}) /\ ~discFailed)
       => <>(pc = "exited" /\ exitCode = 0))

C7_Witness ==
  /\ pc = "exited"
  /\ exitCode = 0
  /\ Len(imageFiles) = 2
  /\ Failed = Range(imageFiles)

\* C8: whenever no call of processImage is in progress, every file that is
\* not one of the paths it was called with is as it was before the run, a
\* pre-existing file at `<path>.temp` included.
C8_OtherFilesUntouched ==
  ~InCall
    => \A q \in Paths :
         (Exists(pre, q) /\ q \notin Range(calls)) => fs[q] = pre[q]

\* C9 as stated: once processImage has returned, no temp file written by
\* the run is left.
C9_NoTempLeft ==
  \A p \in ImagePaths :
    out[p].returned
      => (~Exists(fs, TempOf(p)) \/ fs[TempOf(p)] = pre[TempOf(p)])

\* temp files left by returned calls, and the paths the run has added
C9_State ==
  /\ \A p \in ImagePaths :
       (out[p].returned /\ out[p].failedAt \notin ResizeSteps)
         => (~Exists(fs, TempOf(p)) \/ fs[TempOf(p)] = pre[TempOf(p)])
  /\ \A q \in Paths :
       (Exists(fs, q) /\ ~Exists(pre, q))
         => \E p \in Range(calls) :
              /\ q = TempOf(p)
              /\ (out[p].returned => out[p].failedAt \in ResizeSteps)

\* a temp path gets new content only from the resize step of its image
C9_Step ==
  \A t \in TempPaths :
    (fs'[t] # fs[t] /\ Exists(fs', t))
      => (pc = "pi_resize" /\ t = TempOf(imagePath))

\* C9 as amended: a temp file is written only by the resize step of its
\* image; once processImage has returned, a temp file written by the run is
\* left only if the resize write, the delete or the rename failed; and the
\* run adds no other path.
C9_TempOnlyLeftByFailedResize == [](C9_State) /\ [][C9_Step]_vars

C9_Witness ==
  \E p \in ImagePaths :
    /\ out[p].returned
    /\ out[p].resized
    /\ out[p].failedAt = "none"
    /\ ~Exists(fs, TempOf(p))
    /\ ~Exists(pre, TempOf(p))

\* C10 as stated: after a second run, every file is what the first run
\* left (checked for two runs without any failure).
C10_SecondRunChangesNothing ==
  (second /\ pc = "exited" /\ Failed = {}
     /\ \A p \in ImagePaths : out1[p].failedAt = "none")
    => \A p \in ImagePaths : fs[p] = pre[p]

\* C10 as amended: the second run resizes no file that the first run
\* processed without failure and makes none larger, and it leaves
\* byte-identical every such file for which the first run committed no
\* recompression.
C10_SecondRunBounded ==
  second
    => \A p \in ImagePaths :
         (out1[p].returned /\ out1[p].failedAt = "none")
           => /\ ~out[p].resized
              /\ ~out[p].tempWritten
              /\ fs[p].sz <= pre[p].sz
              /\ ~out1[p].committed => fs[p] = pre[p]

C10_Witness ==
  /\ second
  /\ pc = "exited"
  /\ \E p \in ImagePaths :
       /\ out1[p].returned
       /\ out1[p].failedAt = "none"
       /\ out1[p].resized
       /\ out1[p].compressed # "none"
       /\ ~out1[p].committed
       /\ out[p].compressed # "none"
       /\ out[p].returned
       /\ fs[p] = pre[p]

\* the image files of the tree that lie in directories the walk can come to
\* and list
Discoverable ==
  {fullPath(e) : e \in {x \in tree : /\ x.type = "file"
                                     /\ isImageName(x.name)
                                     /\ Reached(tree, noList, x.dir)
                                     /\ x.dir \notin noList}}

\* C11: the discovery returns exactly the regular files with a recognized
\* extension that lie, at any depth, in directories that can be listed:
\* nothing else, none missing, none twice.
C11_DiscoveryExact ==
  pc = "walked"
    => /\ Range(files) = Discoverable
       /\ Cardinality(Range(files)) = Len(files)

\* C12: when subdirectories cannot be listed, the worklist walk logs each of
\* them when it comes to it, skips what lies under it and nothing else, and
\* goes on: every directory that can be come to is dequeued, and every image
\* file in the directories that can be listed is returned.
C12_UnlistableSkipped ==
  (pc = "walked" /\ variant = "iter")
    => /\ \A d \in Dirs(tree) :
            Reached(tree, noList, d)
              => <<d, IF d \in noList THEN "error" ELSE "ok">> \in Range(listed)
       /\ Discoverable \subseteq Range(files)
       /\ \A e \in tree :
            fullPath(e) \in Range(files)
              => (e.dir \notin noList /\ Reached(tree, noList, e.dir))

C12_Witness ==
  /\ pc = "walked"
  /\ variant = "iter"
  /\ \E k, m \in 1..Len(listed) :
       /\ k < m
       /\ listed[k][2] = "error"
       /\ listed[m][2] = "ok"
       /\ \E e \in tree : e.dir = listed[m][1] /\ fullPath(e) \in Range(files)

\* C13: on every tree the worklist walk returns the same set of paths as the
\* per-extension glob matching, trees with a directory named like an image
\* and with entries that are not regular files included.
C13_SameFileSet ==
  (pc = "walked" /\ variant = "iter")
    => Range(files) = Range(globTreeAll(tree, noList, 1))

\* no directory is dequeued twice, none waits twice in the queue, none that
\* was dequeued waits again, and the finished walk has dequeued as many
\* directories as can be come to
C19_State ==
  /\ \A k, m \in 1..Len(listed) : listed[k][1] = listed[m][1] => k = m
  /\ \A k, m \in 1..Len(queue) : queue[k] = queue[m] => k = m
  /\ \A k \in 1..Len(queue), m \in 1..Len(listed) : queue[k] # listed[m][1]
  /\ (pc = "walked" /\ variant = "iter")
       => Len(listed) =
            Cardinality({d \in Dirs(tree) : Reached(tree, noList, d)})

\* C19: the discovery ends on every tree, and it lists each directory at
\* most once: a directory is queued once, dequeued once and never queued
\* again, so the queue is empty after one turn per directory that can be
\* come to.
C19_WalkTerminates == [](C19_State) /\ <>(pc = "walked")

C19_Witness ==
  /\ pc = "walked"
  /\ variant = "iter"
  /\ Len(listed) = 4
  /\ noList # {}

\* the calls made so far are the first discovered paths, in order; a call
\* starts only when all the calls before it have returned and been counted
C14_State ==
  /\ Len(calls) <= Len(imageFiles)
  /\ calls = SubSeq(imageFiles, 1, Len(calls))
  /\ \A k, m \in 1..Len(imageFiles) : imageFiles[k] = imageFiles[m] => k = m
  /\ (InCall \/ pc = "pi_return")
       => /\ Len(calls) = completed + 1
          /\ imagePath = imageFiles[Len(calls)]
          /\ \A k \in 1..completed : out[calls[k]].returned
  /\ pc \in {"batch", "item", "finish", "exited"} => Len(calls) = completed
  /\ (~InCall /\ pc # "pi_return")
       => \A k \in 1..Len(calls) : out[calls[k]].returned
  /\ pc = "exited" => calls = imageFiles

\* a call starts only from the loop, with the next discovered path
C14_Step ==
  (calls' # calls)
    => /\ pc = "item"
       /\ calls' = Append(calls, imageFiles[completed + 1])

\* C14: both orchestrators call processImage on every discovered path once,
\* in the order of discovery, each call after the one before it has
\* returned; the batches of 10 change nothing to the sequence of calls,
\* whatever the length of the list.
C14_SameCallSequence == [](C14_State) /\ [][C14_Step]_vars

C14_Witness ==
  /\ pc = "exited"
  /\ variant = "iter"
  /\ Len(imageFiles) > batchSize
  /\ Len(imageFiles) % batchSize # 0
  /\ calls = imageFiles
  /\ errors # <<>>

\* the recompression of a path has failed after its resize
ResizedThenFailed(p) ==
  /\ out[p].returned
  /\ out[p].resized
  /\ out[p].failedAt \in {"stat", "compress"}

\* C15: the recompression of an image wider than 2500 starts only once the
\* resized version has replaced the original; when the recompression then
\* throws, the file stays the resized version, not recompressed and not put
\* back, one error is logged for it, and the run goes on through every
\* discovered file.
C15_ResizeKeptOnCompressFailure ==
  /\ (pc \in {"pi_opt", "pi_compress", "pi_commit"}
        /\ pre[imagePath].w > MAX_WIDTH)
       => /\ out[imagePath].resized
          /\ fs[imagePath] = Img(MAX_WIDTH, fs[imagePath].sz, 0)
          /\ fs[TempOf(imagePath)] = NoFile
  /\ \A p \in ImagePaths :
       ResizedThenFailed(p)
         => /\ pre[p].w > MAX_WIDTH
            /\ fs[p] = Img(MAX_WIDTH, fs[p].sz, 0)
            /\ ~out[p].committed
            /\ Cardinality({k \in 1..Len(errors) : errors[k] = p}) = 1
  /\ (pc = "exited" /\ \E p \in ImagePaths : ResizedThenFailed(p))
       => (calls = imageFiles /\ completed = Len(imageFiles))

C15_Witness ==
  /\ pc = "exited"
  /\ Len(imageFiles) = 2
  /\ ResizedThenFailed(imageFiles[1])
  /\ out[imageFiles[1]].failedAt = "compress"
  /\ out[imageFiles[2]].returned
  /\ out[imageFiles[2]].failedAt = "none"

\* the images processImage was called with
Called == {p \in Range(calls) : pre[p].kind = "img"}

\* C16: the resize steps run exactly for a probed width above 2500.  An
\* image at most 2500 wide, 2500 included, gets no temp file, stays at its
\* path and keeps its width; a successful resize leaves the file 2500 wide;
\* after a successful processImage the width is min(original width, 2500).
C16_ResizeIffWider ==
  /\ pc \in {"pi_resize", "pi_unlink", "pi_rename"} => width > MAX_WIDTH
  /\ pc \in {"pi_opt", "pi_compress", "pi_commit"}
       => (out[imagePath].resized <=> width > MAX_WIDTH)
  /\ \A p \in Called :
       /\ pre[p].w <= MAX_WIDTH
            => /\ ~out[p].tempWritten
               /\ ~out[p].resized
               /\ fs[TempOf(p)] = pre[TempOf(p)]
               /\ Exists(fs, p)
               /\ fs[p].kind = "img" => fs[p].w = pre[p].w
       /\ (out[p].resized /\ fs[p].kind = "img") => fs[p].w = MAX_WIDTH
       /\ (out[p].returned /\ out[p].failedAt = "none")
            => /\ fs[p].w = Min(pre[p].w, MAX_WIDTH)
               /\ fs[p].w <= pre[p].w
               /\ out[p].resized <=> pre[p].w > MAX_WIDTH

C16_Witness ==
  \E p \in Called :
    /\ out[p].returned
    /\ out[p].failedAt = "none"
    /\ pre[p].w = MAX_WIDTH + 1
    /\ out[p].resized
    /\ fs[p].w = MAX_WIDTH

\* completed counts the calls that have returned, successful or not, and
\* the percentage of the last progress line is the rounded quotient
C17_State ==
  /\ pc = "start" => completed = 0
  /\ completed <= Len(imageFiles)
  /\ pc # "pi_return"
       => completed = Cardinality({p \in ImagePaths : out[p].returned})
  /\ pc = "exited" => completed = Len(imageFiles)
  /\ completed = 0 => percent = -1
  /\ completed > 0
       => /\ 2 * percent * Len(imageFiles) <= 200 * completed + Len(imageFiles)
          /\ 200 * completed + Len(imageFiles) < 2 * (percent + 1) * Len(imageFiles)
  /\ (pc = "exited" /\ Len(imageFiles) >= 1) => percent = 100

\* completed moves by one, when a call has returned
C17_Step ==
  (completed' # completed)
    => /\ completed' = completed + 1
       /\ pc = "pi_return"
       /\ out[imagePath].returned

AfterProgress == variant = "iter" /\ pc = "item" /\ completed > 0

\* an estimate is computed only after more than 10 files, with a positive
\* percentage, and as elapsed / completed * (total - completed)
C18_Computed ==
  eta # NoEta
    => /\ completed > 10
       /\ percent > 0
       /\ eta.elapsed \in 0..MaxElapsed
       /\ eta.ms * completed <= eta.elapsed * (Len(imageFiles) - completed)
       /\ eta.elapsed * (Len(imageFiles) - completed) < (eta.ms + 1) * completed

\* C18 as stated: an estimate is computed, by that formula, only after more
\* than 10 files and with a positive percentage, and in every run of more
\* than 10 files after each file from the 11th on that is not the last.
C18_EtaFromEleventh ==
  AfterProgress
    => /\ C18_Computed
       /\ (completed > 10 /\ completed < Len(imageFiles)) => eta # NoEta

\* C18 as amended: an estimate is computed after a file exactly when more
\* than 10 files are completed and the rounded percentage is above 0, that
\* is when 200 * completed >= total; by that formula; hence after each file
\* from the 11th on in runs of 11 to 2200 files, the last file included,
\* and in longer runs not before the percentage has left 0.  The unbatched
\* version computes none.
C18_EtaWhenPercentPositive ==
  /\ AfterProgress
       => /\ C18_Computed
          /\ eta # NoEta
               <=> (completed > 10 /\ 200 * completed >= Len(imageFiles))
          /\ (completed > 10 /\ Len(imageFiles) <= 200 * 11) => eta # NoEta
  /\ variant = "glob" => eta = NoEta

C18_Witness ==
  /\ AfterProgress
  /\ completed = 11
  /\ Len(imageFiles) > 11
  /\ eta # NoEta
  /\ eta.ms > 0

\* a savings figure was printed only for a committed file
C20_State ==
  /\ \A p \in ImagePaths : out[p].saved # -1 => out[p].committed
  /\ percent # -1 => (Len(imageFiles) > 0 /\ completed > 0)
  /\ Len(imageFiles) = 0 => (completed = 0 /\ pc \notin {"pi_return"})

\* the divisions are made with a divisor above zero: the savings figure in
\* the commit, with new size < original size, the progress figure after a
\* call of the loop
C20_Step ==
  /\ \A p \in ImagePaths :
       (out'[p].saved # out[p].saved)
         => /\ pc = "pi_commit"
            /\ p = imagePath
            /\ originalSize > 0
            /\ optimizedBuffer.sz < originalSize
            /\ fs'[p] = optimizedBuffer
            /\ out'[p].committed
  /\ (percent' # percent \/ completed' # completed)
       => /\ pc = "pi_return"
          /\ Len(imageFiles) > 0
          /\ completed' > 0

\* the savings figure is a number above 0.00, up to 100.00
C20_Positive ==
  \A p \in ImagePaths :
    out[p].saved # -1 => (0 < out[p].saved /\ out[p].saved <= 10000)

\* C20 as stated: no percentage is computed with a divisor of zero, and the
\* savings figure that is reported lies in (0, 100].
C20_SavingsAboveZero == [](C20_State /\ C20_Positive) /\ [][C20_Step]_vars

\* the savings figure is a number from 0.00 to 100.00
C20_Reported ==
  \A p \in ImagePaths : out[p].saved # -1 => out[p].saved \in 0..10000

\* C20 as amended: no percentage is computed with a divisor of zero: the
\* savings figure only in a commit, where new size < original size and so
\* original size > 0, the progress figure only after a call of the loop,
\* which needs a file; the savings quotient lies in (0, 100], and the figure
\* reported, rounded to two decimals, in [0.00, 100.00].
C20_NoDivisionByZero == [](C20_State /\ C20_Reported) /\ [][C20_Step]_vars

C20_Witness ==
  /\ pc = "item"
  /\ completed = 1
  /\ percent = 100
  /\ out[Candidates[1]].committed
  /\ out[Candidates[1]].saved = 0
  /\ pre[Candidates[1]].sz = LargeSize

====
